---------------------------- MODULE Spec2Model ----------------------------
(***************************************************************************)
(* A model of Poco::JSON::Template (Template.cpp): the directive scanner,  *)
(* the stack-driven parser that builds the part tree, and the rendering of *)
(* the part tree against a JSON data context.                              *)
(*                                                                         *)
(* Characters are one-character strings, texts are sequences of them.      *)
(* Part objects live in a heap (a sequence of records); a pointer is an    *)
(* index into it and 0 is the null pointer.                                *)
(***************************************************************************)
EXTENDS Integers, Sequences, FiniteSets, TLC

VARIABLES
    source,        \* the template text handed to parse(std::istream&)
    in,            \* the stream: [s: characters not yet read, eof: eofbit]
    heap,          \* the Part objects allocated so far
    _parts,        \* Template::_parts (root MultiPart, 0 = nullptr)
    _currentPart,  \* Template::_currentPart
    _partStack,    \* Template::_partStack (top = last element)
    pc,            \* "new" | "parsing" | "parsed" | "failed" | "crashed"
    err,           \* message of the JSONTemplateException thrown by parse
    data,          \* the data context object handed to render
    pre,           \* the data context as it was when the latest render began
    outs,          \* the text written by each render call so far
    log,           \* what the latest render did, in order (see Event)
    threads        \* the render calls running at the same time (see Started)

vars == <<source, in, heap, _parts, _currentPart, _partStack, pc, err,
          data, pre, outs, log, threads>>

-----------------------------------------------------------------------------
(* Bounds of the model *)

\* Longest template in items (directives and text spans).
MaxItems == 4
\* Longest free-form text template in characters.
MaxText == 3
\* Number of render calls on the compiled template.
MaxRenders == 2
\* The largest number of items in a template rendered by two calls at once
MaxConcItems == 3

-----------------------------------------------------------------------------
(* Characters *)

EOF == "EOF"            \* what get()/peek() return at the end of the stream

\* Poco::Ascii::isSpace
IsSpace(c) == c \in {" ", "\t", "\n", "\r", "\f"}

\* std::istream::get on the stream record
Get(i) ==
    IF i.s = <<>> THEN [c |-> EOF, in |-> [i EXCEPT !.eof = TRUE]]
    ELSE [c |-> Head(i.s), in |-> [i EXCEPT !.s = Tail(i.s)]]

\* std::istream::peek: the character, and the stream (eofbit is set at the end)
Peek(i) ==
    IF i.s = <<>> THEN [c |-> EOF, in |-> [i EXCEPT !.eof = TRUE]]
    ELSE [c |-> Head(i.s), in |-> i]

\* std::istream::good
Good(i) == ~i.eof

-----------------------------------------------------------------------------
(* The scanner.  Every operator returns [val |-> token, in |-> stream].    *)

RECURSIVE ReadTextLoop(_, _)
ReadTextLoop(i, text) ==
    LET g == Get(i) IN
    IF g.c = EOF THEN [val |-> text, in |-> g.in]
    ELSE IF g.c = "<"
         THEN LET p == Peek(g.in) IN
              IF p.c = "?"
              THEN [val |-> text, in |-> Get(p.in).in]
              ELSE ReadTextLoop(p.in, text \o <<g.c>>)
         ELSE ReadTextLoop(g.in, text \o <<g.c>>)

readText(i) == ReadTextLoop(i, <<>>)

RECURSIVE readWhiteSpace(_)
readWhiteSpace(i) ==
    LET p == Peek(i) IN
    IF p.c # EOF /\ IsSpace(p.c) THEN readWhiteSpace(Get(p.in).in) ELSE p.in

echoCommand == <<"e", "c", "h", "o">>

\* readTemplateCommand without the rule that makes = the echo command
RECURSIVE ReadCommandLoopNoShorthand(_, _)
ReadCommandLoopNoShorthand(i, command) ==
    LET g == Get(i) IN
    IF g.c = EOF THEN [val |-> command, in |-> g.in]
    ELSE IF IsSpace(g.c) THEN [val |-> command, in |-> g.in]
    ELSE IF g.c = "?"
         THEN LET p == Peek(g.in) IN
              IF p.c = ">"
              THEN [val |-> command, in |-> i]
              ELSE ReadCommandLoopNoShorthand(p.in, command \o <<g.c>>)
    ELSE ReadCommandLoopNoShorthand(g.in, command \o <<g.c>>)

RECURSIVE ReadCommandLoop(_, _)
ReadCommandLoop(i, command) ==
    LET g == Get(i) IN
    IF g.c = EOF THEN [val |-> command, in |-> g.in]
    ELSE IF IsSpace(g.c) THEN [val |-> command, in |-> g.in]
    ELSE IF g.c = "?"
         THEN LET p == Peek(g.in) IN
              IF p.c = ">"
              THEN [val |-> command, in |-> i]        \* putback
              ELSE ReadCommandLoop(p.in, command \o <<g.c>>)
    ELSE IF g.c = "=" /\ Len(command) = 0
         THEN [val |-> echoCommand, in |-> g.in]
    ELSE ReadCommandLoop(g.in, command \o <<g.c>>)

readTemplateCommand(i) == ReadCommandLoop(readWhiteSpace(i), <<>>)

RECURSIVE ReadWordLoop(_, _)
ReadWordLoop(i, word) ==
    LET p == Peek(i) IN
    IF p.c # EOF /\ ~IsSpace(p.c)
    THEN ReadWordLoop(Get(p.in).in, word \o <<p.c>>)
    ELSE [val |-> word, in |-> p.in]

readWord(i) == ReadWordLoop(i, <<>>)

RECURSIVE ReadQueryLoop(_, _)
ReadQueryLoop(i, word) ==
    LET g == Get(i) IN
    IF g.c = EOF THEN [val |-> word, in |-> g.in]
    ELSE IF g.c = "?"
         THEN LET p == Peek(g.in) IN
              IF p.c = ">"
              THEN [val |-> word, in |-> i]           \* putback
              ELSE ReadQueryLoop(p.in, word \o <<g.c>>)
    ELSE IF IsSpace(g.c) THEN [val |-> word, in |-> g.in]
    ELSE ReadQueryLoop(g.in, word \o <<g.c>>)

readQuery(i) == ReadQueryLoop(i, <<>>)

RECURSIVE ReadStringLoop(_, _)
ReadStringLoop(i, str) ==
    LET g == Get(i) IN
    IF g.c # EOF /\ g.c # "\""
    THEN ReadStringLoop(g.in, str \o <<g.c>>)
    ELSE [val |-> str, in |-> g.in]

readString(i) ==
    LET g == Get(i) IN
    IF g.c = "\"" THEN ReadStringLoop(g.in, <<>>)
    ELSE [val |-> <<>>, in |-> g.in]

-----------------------------------------------------------------------------
(* The part tree.  Every Part object is a record of one shape; the fields  *)
(* a kind does not have are empty.                                         *)

NULL == 0

Part(kind, content, query, name) ==
    [kind |-> kind, content |-> content, query |-> query, name |-> name,
     parts |-> <<>>, queries |-> <<>>]

StringPart(content)    == Part("String", content, <<>>, <<>>)
MultiPart              == Part("Multi", <<>>, <<>>, <<>>)
EchoPart(query)        == Part("Echo", <<>>, query, <<>>)
LogicPart              == Part("Logic", <<>>, <<>>, <<>>)
LoopPart(name, query)  == Part("Loop", <<>>, query, name)

\* The files there are, by their paths from the working directory:
\* path :> content.
Files ==
    (<<"f">> :> <<"F", "<", "?", "=", "a", "?", ">">>)
    @@ (<<".", ".", "/", "h">> :> <<"H", "<", "?", "=", "a", "?", ">">>)
    @@ (<<"s", "/", "i">> :> <<"<", "?", " ">> \o <<"i", "n", "c", "l", "u", "d", "e">>
                                 \o <<" ", "\"", "k", "\"", " ", "?", ">">>)
    @@ (<<"s", "/", "k">> :> <<"K">>)

\* File(path).exists()
exists(path) == path \in DOMAIN Files

\* Path::isRelative
isRelative(path) == path = <<>> \/ Head(path) # "/"

\* The place of the last / of the path, 0 if it has none
LastSlash(path) ==
    IF \E p \in 1..Len(path) : path[p] = "/"
    THEN CHOOSE p \in 1..Len(path) :
             path[p] = "/" /\ \A q \in (p + 1)..Len(path) : path[q] # "/"
    ELSE 0

\* Path::makeParent: the file name is dropped; of a path without a file
\* name the last directory is, and where there is none to drop the parent
\* directory .. is entered.
makeParent(path) ==
    LET dirs == SubSeq(path, 1, Len(path) - 1)
        last == SubSeq(dirs, LastSlash(dirs) + 1, Len(dirs))
    IN  IF LastSlash(path) < Len(path) THEN SubSeq(path, 1, LastSlash(path))
        ELSE IF path = <<"/">> THEN path
        ELSE IF path = <<>> \/ last = <<".", ".">> THEN path \o <<".", ".", "/">>
        ELSE SubSeq(dirs, 1, LastSlash(dirs))

\* Path(parent, relative), parent being a directory and relative a path
\* that has no . and no .. in it
resolve(parent, relative) == parent \o relative

\* IncludePart(parentPath, path): a relative path is taken from the
\* directory of the including template if the file is there, and kept as
\* it is written if not.
IncludePart(parentPath, path) ==
    Part("Include",
         IF isRelative(path) /\ exists(resolve(parentPath, path))
         THEN resolve(parentPath, path) ELSE path,
         <<>>, <<>>)

\* The guards of a LogicPart: the class and the query string.
LogicQuery(query)      == [kind |-> "value", query |-> query]
LogicExistQuery(query) == [kind |-> "exist", query |-> query]
LogicElseQuery         == [kind |-> "else", query |-> <<>>]

\* new: the heap with the object added; its pointer is Len of the new heap.
New(h, part) == Append(h, part)

\* LogicPart::addPart(LogicQuery*, Part*)
LogicAddPart(h, lp, query, part) ==
    [h EXCEPT ![lp].parts = Append(@, part), ![lp].queries = Append(@, query)]

\* MultiPart::addPart(Part*), virtual: LogicPart overrides it and pairs the
\* part with a LogicElseQuery.
AddPart(h, target, part) ==
    IF h[target].kind = "Logic"
    THEN LogicAddPart(h, target, LogicElseQuery, part)
    ELSE [h EXCEPT ![target].parts = Append(@, part)]

\* target->addPart(new ...)
AddNew(h, target, part) == AddPart(New(h, part), target, Len(h) + 1)

-----------------------------------------------------------------------------
(* The parser.  P is the parser's state: [in, heap, cur, stack, pc, err,  *)
(* path], cur being _currentPart, stack _partStack and path                *)
(* _templatePath.  An operator named                                       *)
(* ...Read continues a branch with the token the scanner returned.         *)

forCommand     == <<"f", "o", "r">>
elseCommand    == <<"e", "l", "s", "e">>
elsifCommand   == <<"e", "l", "s", "i", "f">>
elifCommand    == <<"e", "l", "i", "f">>
endforCommand  == <<"e", "n", "d", "f", "o", "r">>
endifCommand   == <<"e", "n", "d", "i", "f">>
ifCommand      == <<"i", "f">>
ifexistCommand == <<"i", "f", "e", "x", "i", "s", "t">>
includeCommand == <<"i", "n", "c", "l", "u", "d", "e">>

KnownCommands ==
    {echoCommand, forCommand, elseCommand, elsifCommand, elifCommand,
     endforCommand, endifCommand, ifCommand, ifexistCommand, includeCommand}

NoError == [msg |-> "", arg |-> <<>>]

\* throw JSONTemplateException(msg + arg): what was assigned before stays.
Throw(P, msg, arg) == [P EXCEPT !.pc = "failed", !.err = [msg |-> msg, arg |-> arg]]

Top(stack) == stack[Len(stack)]
Pop(stack) == SubSeq(stack, 1, Len(stack) - 1)

\* echo
EchoQueryRead(P, query) ==
    IF query.val = <<>>
    THEN Throw([P EXCEPT !.in = query.in], "Missing query in <? echo ?>", <<>>)
    ELSE [P EXCEPT !.in = query.in,
                   !.heap = AddNew(P.heap, P.cur, EchoPart(query.val))]

ParseEchoBranch(P) == EchoQueryRead(P, readQuery(P.in))

\* for that pushes the loop and not the part the loop is in
ForQueryReadPushOne(P, loopVariable, query) ==
    IF query.val = <<>>
    THEN Throw([P EXCEPT !.in = query.in], "Missing query in <? for ?> command", <<>>)
    ELSE [P EXCEPT !.in = query.in,
                   !.stack = Append(P.stack, Len(P.heap) + 1),
                   !.heap = AddNew(P.heap, P.cur, LoopPart(loopVariable, query.val)),
                   !.cur = Len(P.heap) + 1]

\* for
ForQueryRead(P, loopVariable, query) ==
    IF query.val = <<>>
    THEN Throw([P EXCEPT !.in = query.in], "Missing query in <? for ?> command", <<>>)
    ELSE [P EXCEPT !.in = query.in,
                   !.stack = P.stack \o <<P.cur, Len(P.heap) + 1>>,
                   !.heap = AddNew(P.heap, P.cur, LoopPart(loopVariable, query.val)),
                   !.cur = Len(P.heap) + 1]

ForWordRead(P, loopVariable) ==
    IF loopVariable.val = <<>>
    THEN Throw([P EXCEPT !.in = loopVariable.in],
               "Missing variable in <? for ?> command", <<>>)
    ELSE ForQueryRead(P, loopVariable.val, readQuery(readWhiteSpace(loopVariable.in)))

ParseForBranch(P) == ForWordRead(P, readWord(P.in))

\* else that leaves the conditional for the current part
ParseElseBranchKeepCurrent(P) ==
    IF P.stack = <<>> THEN Throw(P, "Unexpected <? else ?> found", <<>>)
    ELSE IF P.heap[Top(P.stack)].kind # "Logic"
    THEN Throw([P EXCEPT !.cur = Top(P.stack)],
               "Missing <? if ?> or <? ifexist ?> for <? else ?>", <<>>)
    ELSE [P EXCEPT !.heap = AddNew(P.heap, Top(P.stack), MultiPart),
                   !.cur = Top(P.stack)]

\* else
ParseElseBranch(P) ==
    IF P.stack = <<>> THEN Throw(P, "Unexpected <? else ?> found", <<>>)
    ELSE IF P.heap[Top(P.stack)].kind # "Logic"
    THEN Throw([P EXCEPT !.cur = Top(P.stack)],
               "Missing <? if ?> or <? ifexist ?> for <? else ?>", <<>>)
    ELSE [P EXCEPT !.heap = AddNew(P.heap, Top(P.stack), MultiPart),
                   !.cur = Len(P.heap) + 1]

\* elsif, elif
ElsifQueryRead(P, command, query) ==
    IF query.val = <<>>
    THEN Throw([P EXCEPT !.in = query.in], "Missing query in <? ?>", command)
    ELSE IF P.stack = <<>>
    THEN Throw([P EXCEPT !.in = query.in], "Unexpected <? elsif / elif ?> found", <<>>)
    ELSE IF P.heap[Top(P.stack)].kind # "Logic"
    THEN Throw([P EXCEPT !.in = query.in, !.cur = Top(P.stack)],
               "Missing <? if ?> or <? ifexist ?> for <? elsif / elif ?>", <<>>)
    ELSE [P EXCEPT !.in = query.in,
                   !.heap = LogicAddPart(New(P.heap, MultiPart), Top(P.stack),
                                         LogicQuery(query.val), Len(P.heap) + 1),
                   !.cur = Len(P.heap) + 1]

ParseElsifBranch(P, command) == ElsifQueryRead(P, command, readQuery(P.in))

\* endfor that does not look at the class of the part on top of the stack
ParseEndforBranchUnchecked(P) ==
    IF Len(P.stack) < 2 THEN Throw(P, "Unexpected <? endfor ?> found", <<>>)
    ELSE [P EXCEPT !.cur = Top(Pop(P.stack)), !.stack = Pop(Pop(P.stack))]

\* endfor
ParseEndforBranch(P) ==
    IF Len(P.stack) < 2 THEN Throw(P, "Unexpected <? endfor ?> found", <<>>)
    ELSE IF P.heap[Top(P.stack)].kind # "Loop"
    THEN Throw(P, "Missing <? for ?> command", <<>>)
    ELSE [P EXCEPT !.cur = Top(Pop(P.stack)), !.stack = Pop(Pop(P.stack))]

\* endif that pops one level of the stack
ParseEndifBranchPopOne(P) ==
    IF Len(P.stack) < 2 THEN Throw(P, "Unexpected <? endif ?> found", <<>>)
    ELSE IF P.heap[Top(P.stack)].kind # "Logic"
    THEN Throw([P EXCEPT !.cur = Top(P.stack)],
               "Missing <? if ?> or <? ifexist ?> for <? endif ?>", <<>>)
    ELSE [P EXCEPT !.cur = Top(P.stack), !.stack = Pop(P.stack)]

\* endif
ParseEndifBranch(P) ==
    IF Len(P.stack) < 2 THEN Throw(P, "Unexpected <? endif ?> found", <<>>)
    ELSE IF P.heap[Top(P.stack)].kind # "Logic"
    THEN Throw([P EXCEPT !.cur = Top(P.stack)],
               "Missing <? if ?> or <? ifexist ?> for <? endif ?>", <<>>)
    ELSE [P EXCEPT !.cur = Top(Pop(P.stack)), !.stack = Pop(Pop(P.stack))]

\* if, ifexist that take an empty query for a query
IfQueryReadUnchecked(P, command, query) ==
    [P EXCEPT !.in = query.in,
              !.stack = P.stack \o <<P.cur, Len(P.heap) + 1>>,
              !.heap = LogicAddPart(New(AddNew(P.heap, P.cur, LogicPart), MultiPart),
                                    Len(P.heap) + 1,
                                    IF command = ifexistCommand
                                    THEN LogicExistQuery(query.val)
                                    ELSE LogicQuery(query.val),
                                    Len(P.heap) + 2),
              !.cur = Len(P.heap) + 2]

\* if, ifexist: the LogicPart is object Len(heap) + 1, its first body the next
IfQueryRead(P, command, query) ==
    IF query.val = <<>>
    THEN Throw([P EXCEPT !.in = query.in], "Missing query in <? ?>", command)
    ELSE [P EXCEPT !.in = query.in,
                   !.stack = P.stack \o <<P.cur, Len(P.heap) + 1>>,
                   !.heap = LogicAddPart(New(AddNew(P.heap, P.cur, LogicPart), MultiPart),
                                         Len(P.heap) + 1,
                                         IF command = ifexistCommand
                                         THEN LogicExistQuery(query.val)
                                         ELSE LogicQuery(query.val),
                                         Len(P.heap) + 2),
                   !.cur = Len(P.heap) + 2]

ParseIfBranch(P, command) == IfQueryRead(P, command, readQuery(P.in))

\* include
IncludeFilenameRead(P, filename) ==
    IF filename.val = <<>>
    THEN Throw([P EXCEPT !.in = filename.in], "Missing filename in <? include ?>", <<>>)
    ELSE [P EXCEPT !.in = filename.in,
                   !.heap = AddNew(P.heap, P.cur,
                                   IncludePart(makeParent(P.path), filename.val))]

ParseIncludeBranch(P) == IncludeFilenameRead(P, readString(readWhiteSpace(P.in)))

\* The chain on the command word that passes over a word it does not know
ParseBranchSkipUnknown(P, command) ==
    IF command = echoCommand THEN ParseEchoBranch(P)
    ELSE IF command = forCommand THEN ParseForBranch(P)
    ELSE IF command = elseCommand THEN ParseElseBranch(P)
    ELSE IF command \in {elsifCommand, elifCommand} THEN ParseElsifBranch(P, command)
    ELSE IF command = endforCommand THEN ParseEndforBranch(P)
    ELSE IF command = endifCommand THEN ParseEndifBranch(P)
    ELSE IF command \in {ifCommand, ifexistCommand} THEN ParseIfBranch(P, command)
    ELSE IF command = includeCommand THEN ParseIncludeBranch(P)
    ELSE P

\* The if / else if chain on the command word.
ParseBranch(P, command) ==
    IF command = echoCommand THEN ParseEchoBranch(P)
    ELSE IF command = forCommand THEN ParseForBranch(P)
    ELSE IF command = elseCommand THEN ParseElseBranch(P)
    ELSE IF command \in {elsifCommand, elifCommand} THEN ParseElsifBranch(P, command)
    ELSE IF command = endforCommand THEN ParseEndforBranch(P)
    ELSE IF command = endifCommand THEN ParseEndifBranch(P)
    ELSE IF command \in {ifCommand, ifexistCommand} THEN ParseIfBranch(P, command)
    ELSE IF command = includeCommand THEN ParseIncludeBranch(P)
    ELSE Throw(P, "Unknown command ", command)

\* if (in.peek() == c) in.get();
SkipChar(i, c) == IF Peek(i).c = c THEN Get(i).in ELSE Peek(i).in

\* The end of an iteration, and the loop's test in.good()
Continue(P, i) == [P EXCEPT !.in = i, !.pc = IF Good(i) THEN "parsing" ELSE "parsed"]

\* The closer after which the line end is dropped whatever the command
CloserReadAlways(P, command, c) ==
    IF c.c = "?" /\ Peek(c.in).c = ">"
    THEN Continue(P, SkipChar(SkipChar(Get(c.in).in, "\r"), "\n"))
    ELSE Throw([P EXCEPT !.in = IF c.c = "?" THEN Peek(c.in).in ELSE c.in],
               "Missing ?>", <<>>)

\* The end of a directive that takes whatever follows for the closer
CloserReadLenient(P, command, c) ==
    IF c.c = "?" /\ Peek(c.in).c = ">"
    THEN Continue(P, IF command # echoCommand
                     THEN SkipChar(SkipChar(Get(c.in).in, "\r"), "\n")
                     ELSE Get(c.in).in)
    ELSE Continue(P, c.in)

\* The closer "?>" after the directive, c being the character got: the '>'
\* is dropped, and after a command other than echo a "\r" and a "\n".
CloserRead(P, command, c) ==
    IF c.c = "?" /\ Peek(c.in).c = ">"
    THEN Continue(P, IF command # echoCommand
                     THEN SkipChar(SkipChar(Get(c.in).in, "\r"), "\n")
                     ELSE Get(c.in).in)
    ELSE Throw([P EXCEPT !.in = IF c.c = "?" THEN Peek(c.in).in ELSE c.in],
               "Missing ?>", <<>>)

ParseCloser(P, command) == CloserRead(P, command, Get(readWhiteSpace(P.in)))

\* The text span added only when it is longer than one character
TextReadOffByOne(P, text) ==
    [P EXCEPT !.in = text.in,
              !.heap = IF Len(text.val) > 1
                       THEN AddNew(P.heap, P.cur, StringPart(text.val)) ELSE @]

\* The text span read first in an iteration, added as a StringPart.
TextRead(P, text) ==
    [P EXCEPT !.in = text.in,
              !.heap = IF Len(text.val) > 0
                       THEN AddNew(P.heap, P.cur, StringPart(text.val)) ELSE @]

ParseText(P) == TextRead(P, readText(P.in))

\* The command word read after the text span.
ParseCommand(P) == readTemplateCommand(ParseText(P).in).val

\* After the branch of the command: nothing when it threw, else the closer.
BranchDone(P, command) == IF P.pc = "failed" THEN P ELSE ParseCloser(P, command)

\* The empty command taken for a command as any other
CommandReadNoBreak(P, command) ==
    BranchDone(ParseBranch([P EXCEPT !.in = readWhiteSpace(command.in)],
                           command.val),
               command.val)

\* The end of the input taken for an error while a block is open
CommandReadStrict(P, command) ==
    IF command.val = <<>>
    THEN IF P.stack # <<>>
         THEN Throw([P EXCEPT !.in = command.in], "Missing <? endif ?> or <? endfor ?>", <<>>)
         ELSE [P EXCEPT !.in = command.in, !.pc = "parsed"]
    ELSE BranchDone(ParseBranch([P EXCEPT !.in = readWhiteSpace(command.in)],
                                command.val),
                    command.val)

\* The part of an iteration after the text span: no command ends the loop.
CommandRead(P, command) ==
    IF command.val = <<>> THEN [P EXCEPT !.in = command.in, !.pc = "parsed"]
    ELSE BranchDone(ParseBranch([P EXCEPT !.in = readWhiteSpace(command.in)],
                                command.val),
                    command.val)

ParseDirective(P) == CommandRead(P, readTemplateCommand(P.in))

\* One iteration of the loop of Template::parse(std::istream&).
ParseIteration(P) == ParseDirective(ParseText(P))

\* _parts = new MultiPart; _currentPart = _parts; and the loop's first test.
ParseBegin(P) ==
    [P EXCEPT !.heap = New(P.heap, MultiPart), !.cur = Len(P.heap) + 1,
              !.pc = IF Good(P.in) THEN "parsing" ELSE "parsed"]

RECURSIVE ParseLoop(_)
ParseLoop(P) == IF P.pc = "parsing" THEN ParseLoop(ParseIteration(P)) ELSE P

\* Template(): _templatePath is the default Path.
_templatePath == <<>>

\* A fresh Template's parse(in) run to its end on text src.
FreshParser(src) ==
    [in |-> [s |-> src, eof |-> FALSE], heap |-> <<>>, cur |-> NULL,
     stack |-> <<>>, pc |-> "new", err |-> NoError, path |-> _templatePath]

ParseAll(src) == ParseLoop(ParseBegin(FreshParser(src)))

\* Template tpl(path); tpl.parse(): the file, which exists, is parsed by a
\* Template that has its path.
ParseFile(path) ==
    ParseLoop(ParseBegin([FreshParser(Files[path]) EXCEPT !.path = path]))

-----------------------------------------------------------------------------
(* The value model (Poco::Dynamic::Var, JSON::Object, JSON::Array,         *)
(* JSON::Query): a value is [t |-> type, v |-> content].  A string is a    *)
(* character sequence, an array a sequence of values, an object a function *)
(* from keys (character sequences) to values.                              *)

Empty     == [t |-> "empty", v |-> <<>>]        \* an empty Var, JSON null
StrV(s)   == [t |-> "str", v |-> s]
IntV(n)   == [t |-> "int", v |-> n]
BoolV(b)  == [t |-> "bool", v |-> b]
ArrV(a)   == [t |-> "arr", v |-> a]             \* Var holding an Array::Ptr
ObjV(o)   == [t |-> "obj", v |-> o]             \* Var holding an Object::Ptr

isEmpty(value)  == value.t = "empty"
isString(value) == value.t = "str"

\* Object::get: the value of a key, an empty Var when the key is absent
ObjGet(o, key) == IF key \in DOMAIN o THEN o[key] ELSE Empty

\* Object::set
ObjSet(o, key, value) ==
    [k \in DOMAIN o \cup {key} |-> IF k = key THEN value ELSE o[k]]

\* Object::remove
ObjRemove(o, key) == [k \in DOMAIN o \ {key} |-> o[k]]

\* StringTokenizer(path, "."): the names of a query path
RECURSIVE SplitLoop(_, _, _)
SplitLoop(path, token, tokens) ==
    IF path = <<>> THEN Append(tokens, token)
    ELSE IF Head(path) = "." THEN SplitLoop(Tail(path), <<>>, Append(tokens, token))
    ELSE SplitLoop(Tail(path), Append(token, Head(path)), tokens)

Split(path) == IF path = <<>> THEN <<>> ELSE SplitLoop(path, <<>>, <<>>)

\* Query::find: the value at a dotted path, an empty Var when a name of the
\* path is absent or is looked up in a value that is not an object.
RECURSIVE FindLoop(_, _)
FindLoop(result, tokens) ==
    IF tokens = <<>> THEN result
    ELSE IF isEmpty(result) THEN FindLoop(result, Tail(tokens))
    ELSE IF Head(tokens) = <<>> THEN FindLoop(result, Tail(tokens))
    ELSE IF result.t = "obj" THEN FindLoop(ObjGet(result.v, Head(tokens)), Tail(tokens))
    ELSE FindLoop(Empty, Tail(tokens))

find(value, path) == FindLoop(value, Split(path))

\* Query::findArray: the array at the path, or a null Array::Ptr
NullArray == [null |-> TRUE, v |-> <<>>]
findArray(value, path) ==
    LET r == find(value, path) IN
    IF r.t = "arr" THEN [null |-> FALSE, v |-> r.v] ELSE NullArray

\* Var::convert<bool> of a value that is not a string
toBool(value) ==
    CASE value.t = "int"  -> value.v # 0
      [] value.t = "bool" -> value.v
      [] value.t = "arr"  -> Len(value.v) > 0
      [] value.t = "obj"  -> DOMAIN value.v # {}
      [] OTHER -> FALSE

Digits == <<"0", "1", "2", "3", "4", "5", "6", "7", "8", "9">>

RECURSIVE NatToString(_)
NatToString(n) ==
    IF n < 10 THEN <<Digits[n + 1]>>
    ELSE Append(NatToString(n \div 10), Digits[(n % 10) + 1])

IntToString(n) == IF n < 0 THEN <<"-">> \o NatToString(-n) ELSE NatToString(n)

\* The keys of an object in std::map order; keys are compared by their
\* first character's place in KeyOrder and then by the rest.
KeyOrder == <<".", "0", "1", "2", "F", "T", "a", "b", "i", "x", "y">>
Rank(c) == IF \E j \in 1..Len(KeyOrder) : KeyOrder[j] = c
           THEN CHOOSE j \in 1..Len(KeyOrder) : KeyOrder[j] = c ELSE 0

RECURSIVE KeyLess(_, _)
KeyLess(k1, k2) ==
    IF k1 = <<>> THEN k2 # <<>>
    ELSE IF k2 = <<>> THEN FALSE
    ELSE IF Head(k1) = Head(k2) THEN KeyLess(Tail(k1), Tail(k2))
    ELSE Rank(Head(k1)) < Rank(Head(k2))

RECURSIVE SortedKeys(_)
SortedKeys(keys) ==
    IF keys = {} THEN <<>>
    ELSE LET m == CHOOSE k \in keys : \A k2 \in keys \ {k} : KeyLess(k, k2)
         IN  <<m>> \o SortedKeys(keys \ {m})

\* Var::convert<std::string>; arrays and objects are written as JSON text
\* (Stringifier), in which strings carry quotes.
RECURSIVE Stringify(_, _)
RECURSIVE StringifyArray(_, _)
RECURSIVE StringifyObject(_, _, _)
Stringify(value, quoted) ==
    CASE value.t = "str"   -> IF quoted THEN <<"\"">> \o value.v \o <<"\"">> ELSE value.v
      [] value.t = "int"   -> IntToString(value.v)
      [] value.t = "bool"  -> IF value.v THEN <<"t", "r", "u", "e">>
                                         ELSE <<"f", "a", "l", "s", "e">>
      [] value.t = "arr"   -> <<"[">> \o StringifyArray(value.v, 1) \o <<"]">>
      [] value.t = "obj"   -> <<"{">> \o StringifyObject(value.v, SortedKeys(DOMAIN value.v), 1)
                                      \o <<"}">>
      [] value.t = "empty" -> IF quoted THEN <<"n", "u", "l", "l">> ELSE <<>>

StringifyArray(a, j) ==
    IF j > Len(a) THEN <<>>
    ELSE (IF j > 1 THEN <<",">> ELSE <<>>) \o Stringify(a[j], TRUE) \o StringifyArray(a, j + 1)

StringifyObject(o, keys, j) ==
    IF j > Len(keys) THEN <<>>
    ELSE (IF j > 1 THEN <<",">> ELSE <<>>)
         \o <<"\"">> \o keys[j] \o <<"\"", ":">> \o Stringify(o[keys[j]], TRUE)
         \o StringifyObject(o, keys, j + 1)

toString(value) == Stringify(value, FALSE)

-----------------------------------------------------------------------------
(* Rendering.  R is the state of a render call:                            *)
(*   data   the data context (render's `data`, whose object is shared)     *)
(*   out    the text written to the output stream so far                   *)
(*   fault  "" while the call runs; "null" once it has called a method on  *)
(*          a null pointer, "throw" once an exception is being propagated  *)
(*   log    the history of the call: an event for the entry to and the     *)
(*          return from every Part::render, and for every body render of   *)
(*          a LoopPart                                                     *)
(*   scope  the loops being rendered, outermost first: [name, value] is    *)
(*          the loop variable and the element of the current iteration     *)
(*   files  the compiled form of the files an IncludePart can name         *)

\* k: "enter", "body" or "leave"; tpl: the file of the template the part
\* belongs to (<<>>: the template rendered); i: the 1-based index of a
\* body render, and for "leave" the place in the log of the part's "enter";
\* wrote: for "leave", the text the part's render added to the output.
Event(k, tpl, part, i, R, wrote) ==
    [k |-> k, tpl |-> tpl, part |-> part, i |-> i, data |-> R.data,
     scope |-> R.scope, wrote |-> wrote]

Logged(R, e) == [R EXCEPT !.log = Append(@, e)]

\* LogicQuery::apply that converts a string by its content
LogicQueryValueByContent(value) ==
    IF ~isEmpty(value)
    THEN IF isString(value) THEN toString(value) \notin {<<>>, <<"0">>}
         ELSE toBool(value)
    ELSE FALSE

\* LogicQuery::apply, value being what query.find returned
LogicQueryValue(value) ==
    IF ~isEmpty(value)
    THEN IF isString(value) THEN toString(value) # <<>> ELSE toBool(value)
    ELSE FALSE

LogicQueryApply(queryString, d) == LogicQueryValue(find(d, queryString))

\* LogicExistQuery::apply that looks at the content of the value
LogicExistQueryApplyTruthy(queryString, d) == LogicQueryApply(queryString, d)

\* LogicExistQuery::apply
LogicExistQueryApply(queryString, d) == ~isEmpty(find(d, queryString))

\* LogicElseQuery::apply
LogicElseQueryApply(queryString, d) == TRUE

\* (*it)->apply(data): the virtual call on a guard
Apply(q, d) ==
    CASE q.kind = "value" -> LogicQueryApply(q.query, d)
      [] q.kind = "exist" -> LogicExistQueryApply(q.query, d)
      [] q.kind = "else"  -> LogicElseQueryApply(q.query, d)

RECURSIVE RenderPart(_, _, _, _)
RECURSIVE MultiPartRender(_, _, _, _, _)
RECURSIVE LogicPartRender(_, _, _, _, _)
RECURSIVE LogicPartRenderNoBreak(_, _, _, _, _)
RECURSIVE LoopPartIterate(_, _, _, _, _, _)

\* StringPart::render
StringPartRender(h, tpl, id, R) == [R EXCEPT !.out = @ \o h[id].content]

\* EchoPart::render, value being what query.find returned
EchoValue(R, value) ==
    IF ~isEmpty(value) THEN [R EXCEPT !.out = @ \o toString(value)] ELSE R

EchoPartRender(h, tpl, id, R) == EchoValue(R, find(R.data, h[id].query))

\* MultiPart::render, from the j-th part on
MultiPartRender(h, tpl, id, j, R) ==
    IF j > Len(h[id].parts) \/ R.fault # "" THEN R
    ELSE MultiPartRender(h, tpl, id, j + 1, RenderPart(h, tpl, h[id].parts[j], R))

\* LogicPart::render without the break: the bodies of all true guards
LogicPartRenderNoBreak(h, tpl, id, count, R) ==
    IF count >= Len(h[id].queries) \/ R.fault # "" THEN R
    ELSE IF Apply(h[id].queries[count + 1], R.data) /\ Len(h[id].parts) > count
         THEN LogicPartRenderNoBreak(h, tpl, id, count + 1,
                  RenderPart(h, tpl, h[id].parts[count + 1], R))
         ELSE LogicPartRenderNoBreak(h, tpl, id, count + 1, R)

\* LogicPart::render, from guard count on (count is 0-based)
LogicPartRender(h, tpl, id, count, R) ==
    IF count >= Len(h[id].queries) THEN R
    ELSE IF Apply(h[id].queries[count + 1], R.data) /\ Len(h[id].parts) > count
         THEN RenderPart(h, tpl, h[id].parts[count + 1], R)
         ELSE LogicPartRender(h, tpl, id, count + 1, R)

\* dataObject->set(_name, value)
Bind(h, id, value, R) ==
    [R EXCEPT !.data.v = ObjSet(@, h[id].name, value),
              !.scope = Append(@, [name |-> h[id].name, value |-> value])]

\* The start of body render i (0-based), recorded
BodyEvent(tpl, id, i, R) == Logged(R, Event("body", tpl, id, i + 1, R, <<>>))

BodyStart(h, tpl, id, i, value, R) == BodyEvent(tpl, id, i, Bind(h, id, value, R))

\* The end of a body render: the loops being rendered are those of before.
BodyDone(scope, R) == [R EXCEPT !.scope = scope]

\* The for loop of LoopPart::render, from index i on (i is 0-based)
LoopPartIterate(h, tpl, id, array, i, R) ==
    IF R.fault # "" THEN R
    ELSE IF i >= Len(array) THEN R
    ELSE LoopPartIterate(h, tpl, id, array, i + 1,
             BodyDone(R.scope,
                 MultiPartRender(h, tpl, id, 1,
                     BodyStart(h, tpl, id, i, array[i + 1], R))))

\* dataObject->remove(_name), which a fault in a body does not reach
LoopDone(h, id, R) ==
    IF R.fault # "" THEN R ELSE [R EXCEPT !.data.v = ObjRemove(@, h[id].name)]

\* LoopPart::render that does not test the array for null
LoopOverUnchecked(h, tpl, id, array, R) ==
    LoopDone(h, id, LoopPartIterate(h, tpl, id, array.v, 0, R))

\* LoopPart::render, array being what query.findArray returned
LoopOver(h, tpl, id, array, R) ==
    IF ~array.null THEN LoopDone(h, id, LoopPartIterate(h, tpl, id, array.v, 0, R))
    ELSE R

LoopPartRender(h, tpl, id, R) ==
    IF R.data.t = "obj" THEN LoopOver(h, tpl, id, findArray(R.data, h[id].query), R)
    ELSE R

\* IncludePart::render when TemplateCache::instance() is null: a Template
\* on the path is parsed when its file exists, and rendered.  A Template
\* whose file does not exist has no root part.  R.files[path] is what
\* tpl.parse() makes of the file, which is the same at every call.
IncludePartRender(h, tpl, id, R) ==
    IF h[id].content \in DOMAIN Files
    THEN IF R.files[h[id].content].pc = "failed" THEN [R EXCEPT !.fault = "throw"]
         ELSE RenderPart(R.files[h[id].content].heap, h[id].content, 1, R)
    ELSE [R EXCEPT !.fault = "null"]

\* Template::parse() of every file there is
CompiledFiles == [path \in DOMAIN Files |-> ParseFile(path)]

\* The state in which a render call begins
RenderStart(d) ==
    [data |-> d, out |-> <<>>, fault |-> "", log |-> <<>>, scope |-> <<>>,
     files |-> CompiledFiles]

\* The virtual call p->render(data, out) by the class of the part
Dispatch(h, tpl, id, R) ==
    CASE h[id].kind = "String"  -> StringPartRender(h, tpl, id, R)
      [] h[id].kind = "Multi"   -> MultiPartRender(h, tpl, id, 1, R)
      [] h[id].kind = "Echo"    -> EchoPartRender(h, tpl, id, R)
      [] h[id].kind = "Logic"   -> LogicPartRender(h, tpl, id, 0, R)
      [] h[id].kind = "Loop"    -> LoopPartRender(h, tpl, id, R)
      [] h[id].kind = "Include" -> IncludePartRender(h, tpl, id, R)

\* The return of a part's render that began in R and ends in R1
Returned(tpl, id, R, R1) ==
    IF R1.fault # "" THEN R1
    ELSE Logged(R1, Event("leave", tpl, id, Len(R.log) + 1, R1,
                          SubSeq(R1.out, Len(R.out) + 1, Len(R1.out))))

\* p->render(data, out) with its entry and its return recorded
RenderPart(h, tpl, id, R) ==
    Returned(tpl, id, R, Dispatch(h, tpl, id, Logged(R, Event("enter", tpl, id, 0, R, <<>>))))

\* Template::render
TemplateRender(h, root, d) ==
    IF root = NULL
    THEN [RenderStart(d) EXCEPT !.fault = "null"]
    ELSE RenderPart(h, <<>>, root, RenderStart(d))

-----------------------------------------------------------------------------
(* The templates and the data contexts the model is run on *)

\* A directive: the opener, the words, the closer.
Dir(words) == <<"<", "?", " ">> \o words \o <<" ", "?", ">">>
\* The same without the optional white space.
Tight(words) == <<"<", "?">> \o words \o <<"?", ">">>

IfA      == Dir(ifCommand \o <<" ", "a">>)
IfexistA == Dir(ifexistCommand \o <<" ", "a">>)
ElsifB   == Dir(elsifCommand \o <<" ", "b">>)
ElifB    == Tight(elifCommand \o <<" ", "b">>)
Else     == Dir(elseCommand)
Endif    == Dir(endifCommand)
ForXI    == Dir(forCommand \o <<" ", "x", " ", "i">>)
ForXB    == Tight(forCommand \o <<" ", "x", " ", "b">>)
Endfor   == Dir(endforCommand)
EchoX    == Dir(<<"=", " ", "x">>)
EchoA    == Dir(echoCommand \o <<" ", "a">>)
EchoAB   == Tight(<<"=", "a", ".", "b">>)
IncludeF == Dir(includeCommand \o <<" ", "\"", "f", "\"">>)
IncludeG == Dir(includeCommand \o <<" ", "\"", "g", "\"">>)
IncludeH == Dir(includeCommand \o <<" ", "\"", "h", "\"">>)
IncludeSI == Dir(includeCommand \o <<" ", "\"", "s", "/", "i", "\"">>)

\* Directives that lack a token, name no command or are not closed.
Malformed ==
    {Dir(<<"b", "o", "g", "u", "s">>), Dir(ifCommand), Dir(forCommand \o <<" ", "x">>),
     Dir(echoCommand), Dir(includeCommand \o <<" ", "f">>), Tight(elsifCommand),
     <<"<", "?", " ">> \o endifCommand \o <<" ", ">">>,
     <<"<", "?", " ">> \o forCommand,
     Dir(ifexistCommand), Tight(elifCommand),
     Dir(includeCommand \o <<" ", "\"", "\"">>),
     Dir(echoCommand \o <<" ", "a", " ", "b">>)}

\* The families of items templates are made of.
CondItems == {IfA, IfexistA, ElsifB, ElifB, Else, Endif, <<"A">>, <<"B", "\n">>}
LoopItems == {ForXI, ForXB, Endfor, EchoX, <<"A">>, <<"\r", "\n", "\n">>}
NestItems == {IfA, ForXI, Else, ElifB, Endif, Endfor, EchoX}
MiscItems == {EchoA, EchoAB, EchoX, IncludeF, IncludeG, <<"\n">>, <<"<", "?", " ">>,
              Tight(<<>>)}
                 \cup Malformed
FileItems == {IncludeF, IncludeG, IncludeH, IncludeSI, IfA, Endif, EchoA, <<"A">>}

RECURSIVE Concat(_)
Concat(seqs) == IF seqs = <<>> THEN <<>> ELSE Head(seqs) \o Concat(Tail(seqs))

\* The texts made of at most n items of a family.
Templates(items, n) == {Concat(t) : t \in UNION {[1..m -> items] : m \in 0..n}}

TextChars == {"<", "?", ">", "a"}

\* Every text of at most MaxText characters over TextChars.
Texts == UNION {[1..m -> TextChars] : m \in 0..MaxText}

Sources ==
    Templates(CondItems, MaxItems) \cup Templates(LoopItems, MaxItems)
    \cup Templates(NestItems, MaxItems) \cup Templates(MiscItems, MaxItems - 1)
    \cup Templates(FileItems, MaxItems - 1)
    \cup Texts

Key(c) == <<c>>
Str(c) == StrV(<<c>>)

\* JSON objects as functions from keys
Obj0 == <<>>
Obj1(k1, v1) == Key(k1) :> v1
Obj2(k1, v1, k2, v2) == Key(k1) :> v1 @@ Key(k2) :> v2
Obj3(k1, v1, k2, v2, k3, v3) == Key(k1) :> v1 @@ Key(k2) :> v2 @@ Key(k3) :> v3

Contexts ==
    { ObjV(Obj0),
      ObjV(Obj2("a", StrV(<<>>), "b", Str("1"))),
      ObjV(Obj2("a", Str("0"), "i", ArrV(<<>>))),
      ObjV(Obj3("a", IntV(0), "b", StrV(<<>>), "i", ArrV(<<Str("1"), Str("2")>>))),
      ObjV(Obj3("a", IntV(1), "b", ArrV(<<Str("T")>>), "i", ArrV(<<IntV(1), IntV(2)>>))),
      ObjV(Obj3("a", BoolV(FALSE), "b", Str("1"), "x", Str("y"))),
      ObjV(Obj3("a", BoolV(TRUE), "i", ArrV(<<Str("1")>>), "x", Str("y"))),
      ObjV(Obj3("a", ArrV(<<>>), "i", ArrV(<<>>), "x", Str("y"))),
      ObjV(Obj2("a", ArrV(<<Str("1")>>), "b", IntV(0))),
      ObjV(Obj2("a", ObjV(Obj0), "i", Str("y"))),
      ObjV(Obj2("a", ObjV(Obj1("b", Str("x"))), "b", BoolV(FALSE))),
      ObjV(Obj2("a", Empty, "b", BoolV(TRUE))),
      ArrV(<<Str("1")>>) }

-----------------------------------------------------------------------------
(* The state machine *)

\* The parser's state in the variables
Parser == [in |-> in, heap |-> heap, cur |-> _currentPart, stack |-> _partStack,
           pc |-> pc, err |-> err, path |-> _templatePath]

\* The variables after a step of the parser that leads to P
Becomes(P) ==
    /\ in' = P.in
    /\ heap' = P.heap
    /\ _currentPart' = P.cur
    /\ _partStack' = P.stack
    /\ pc' = P.pc
    /\ err' = P.err

\* A Template is constructed and a stream on the source text is opened.
Init ==
    /\ source \in Sources
    /\ in = [s |-> source, eof |-> FALSE]
    /\ heap = <<>>
    /\ _parts = NULL
    /\ _currentPart = NULL
    /\ _partStack = <<>>
    /\ pc = "new"
    /\ err = NoError
    /\ data = Empty
    /\ pre = Empty
    /\ outs = <<>>
    /\ log = <<>>
    /\ threads = <<>>

\* parse(in) is called: the root part is created.
ParseStart ==
    /\ pc = "new"
    /\ Becomes(ParseBegin(Parser))
    /\ _parts' = Len(heap) + 1
    /\ UNCHANGED <<source, data, pre, outs, log, threads>>

\* An iteration of the loop of parse(in), which is at its head.
ParseStep ==
    /\ Becomes(ParseIteration(Parser))
    /\ UNCHANGED <<source, _parts, data, pre, outs, log, threads>>

\* The iterations by the command word read: none (the loop is left), ...
ParseEnd ==
    /\ pc = "parsing"
    /\ ParseCommand(Parser) = <<>>
    /\ ParseStep

ParseEcho ==
    /\ pc = "parsing"
    /\ ParseCommand(Parser) = echoCommand
    /\ ParseStep

ParseFor ==
    /\ pc = "parsing"
    /\ ParseCommand(Parser) = forCommand
    /\ ParseStep

ParseElse ==
    /\ pc = "parsing"
    /\ ParseCommand(Parser) = elseCommand
    /\ ParseStep

ParseElsif ==
    /\ pc = "parsing"
    /\ ParseCommand(Parser) \in {elsifCommand, elifCommand}
    /\ ParseStep

ParseEndfor ==
    /\ pc = "parsing"
    /\ ParseCommand(Parser) = endforCommand
    /\ ParseStep

ParseEndif ==
    /\ pc = "parsing"
    /\ ParseCommand(Parser) = endifCommand
    /\ ParseStep

ParseIf ==
    /\ pc = "parsing"
    /\ ParseCommand(Parser) \in {ifCommand, ifexistCommand}
    /\ ParseStep

ParseInclude ==
    /\ pc = "parsing"
    /\ ParseCommand(Parser) = includeCommand
    /\ ParseStep

\* ... and a word that is no command.
ParseUnknown ==
    /\ pc = "parsing"
    /\ ParseCommand(Parser) \notin KnownCommands \cup {<<>>}
    /\ ParseStep

\* render(data, out) is called on the compiled template: the first call
\* with a data context of the caller's, the later ones with the same object.
Render ==
    /\ pc = "parsed"
    /\ Len(outs) < MaxRenders
    /\ \E d \in (IF outs = <<>> THEN Contexts ELSE {data}) :
         LET R == TemplateRender(heap, _parts, d) IN
         /\ pre' = d
         /\ data' = R.data
         /\ outs' = Append(outs, R.out)
         /\ log' = R.log
         /\ pc' = IF R.fault = "" THEN "parsed" ELSE "crashed"
    /\ UNCHANGED <<source, in, heap, _parts, _currentPart, _partStack, err, threads>>

Next ==
    \/ ParseStart
    \/ ParseEnd
    \/ ParseEcho
    \/ ParseFor
    \/ ParseElse
    \/ ParseElsif
    \/ ParseEndfor
    \/ ParseEndif
    \/ ParseIf
    \/ ParseInclude
    \/ ParseUnknown
    \/ Render

Spec == Init /\ [][Next]_vars

-----------------------------------------------------------------------------
(* Reading the log of the latest render *)

Range(f) == {f[x] : x \in DOMAIN f}

Min(S) == CHOOSE x \in S : \A y \in S : x <= y

\* The returns of the parts of the rendered template that are of a kind
Leaves(kind) ==
    {x \in 1..Len(log) : /\ log[x].k = "leave"
                         /\ log[x].tpl = <<>>
                         /\ heap[log[x].part].kind = kind}

\* The events between the entry of a part and its return at x
Inside(x) == SubSeq(log, log[x].i + 1, x - 1)

\* The data context at the entry of the part that returns at x
DataAtEntry(x) == log[log[x].i].data

\* The children of the part returning at x whose render was entered, in order
ChildrenEntered(x) ==
    LET IsChild(e) == /\ e.k = "enter"
                      /\ e.tpl = <<>>
                      /\ e.part \in Range(heap[log[x].part].parts)
        entered == SelectSeq(Inside(x), IsChild)
    IN  [j \in 1..Len(entered) |-> entered[j].part]

\* The body renders of the loop returning at x, in order
Bodies(x) ==
    LET IsBody(e) == e.k = "body" /\ e.tpl = <<>> /\ e.part = log[x].part
    IN  SelectSeq(Inside(x), IsBody)

-----------------------------------------------------------------------------
(* Conditionals *)

\* The guards of the conditional returning at x that held at its entry
TrueGuards(x) ==
    {j \in 1..Len(heap[log[x].part].queries) :
        Apply(heap[log[x].part].queries[j], DataAtEntry(x))}

\* C1: a conditional renders the body of the first guard, in source order,
\* that is true in the data context, and only that body: later guards and
\* bodies play no part.  A conditional none of whose guards is true renders
\* nothing.
C1_FirstTrueGuard ==
    \A x \in Leaves("Logic") :
        IF TrueGuards(x) = {}
        THEN ChildrenEntered(x) = <<>> /\ log[x].wrote = <<>>
        ELSE /\ ChildrenEntered(x) = <<heap[log[x].part].parts[Min(TrueGuards(x))]>>
             /\ log[x - 1].k = "leave"
             /\ log[x - 1].part = heap[log[x].part].parts[Min(TrueGuards(x))]
             /\ log[x].wrote = log[x - 1].wrote

\* A conditional of three guards whose first is false and whose second and
\* third are true has rendered, and no more than its second body.
C1_Witness ==
    \E x \in Leaves("Logic") :
        /\ Len(heap[log[x].part].queries) = 3
        /\ TrueGuards(x) = {2, 3}
        /\ log[x].wrote = <<"B", "\n">>

-----------------------------------------------------------------------------
(* Loops *)

\* The returns of the loops that were rendered over an object context in
\* which their query resolved to an array
LoopsOverArrays ==
    {x \in Leaves("Loop") :
        /\ DataAtEntry(x).t = "obj"
        /\ ~findArray(DataAtEntry(x), heap[log[x].part].query).null}

\* The array the loop returning at x went over
ArrayOf(x) == findArray(DataAtEntry(x), heap[log[x].part].query).v

\* The name of the loop variable of the loop returning at x
NameOf(x) == heap[log[x].part].name

\* The places in the log where the body renders of the loop returning at
\* x begin, in order
BodyStarts(x) ==
    LET IsBody(p) == /\ log[p].k = "body"
                     /\ log[p].tpl = <<>>
                     /\ log[p].part = log[x].part
    IN  SelectSeq([j \in 1..(x - 1 - log[x].i) |-> log[x].i + j], IsBody)

\* The place in the log where the i-th body render of the loop ends
BodyEnd(x, i) == IF i < Len(BodyStarts(x)) THEN BodyStarts(x)[i + 1] ELSE x

\* C2: a loop over an object context whose query resolves to an array of
\* n elements renders its body exactly n times in index order, the loop
\* variable being bound to element i during the i-th body render: at its
\* start, and at every part of the body that is entered.  Once the loop
\* has rendered, the context has no field named like the loop variable.
C2_LoopBindsEachElement ==
    \A x \in LoopsOverArrays :
        /\ Len(Bodies(x)) = Len(ArrayOf(x))
        /\ \A i \in 1..Len(Bodies(x)) :
              /\ Bodies(x)[i].i = i
              /\ NameOf(x) \in DOMAIN Bodies(x)[i].data.v
              /\ Bodies(x)[i].data.v[NameOf(x)] = ArrayOf(x)[i]
              /\ \A q \in (BodyStarts(x)[i] + 1)..(BodyEnd(x, i) - 1) :
                    ( /\ log[q].k = "enter"
                      /\ log[q].tpl = <<>>
                      /\ log[q].part \in Range(heap[log[x].part].parts) )
                    => /\ NameOf(x) \in DOMAIN log[q].data.v
                       /\ log[q].data.v[NameOf(x)] = ArrayOf(x)[i]
        /\ NameOf(x) \notin DOMAIN log[x].data.v

\* C3: a loop that has rendered leaves the data context exactly as it
\* found it, a field named like the loop variable included.
C3_LoopRestoresContext ==
    \A x \in LoopsOverArrays : log[x].data = DataAtEntry(x)

\* The loop variables of the loops being rendered, at an event
Bound(e) == {e.scope[j].name : j \in 1..Len(e.scope)}

\* The element the innermost loop being rendered that binds name is at
Innermost(e, name) ==
    e.scope[CHOOSE j \in 1..Len(e.scope) :
                /\ e.scope[j].name = name
                /\ \A k \in (j + 1)..Len(e.scope) : e.scope[k].name # name].value

\* C4: where a loop is nested in the body of a loop with the same loop
\* variable, the parts of the outer body that follow the inner loop find
\* the loop variable bound to the current element of the outer loop:
\* every part entered in a loop body finds each loop variable bound to
\* the current element of the innermost loop around it that binds it.
C4_OuterBindingRestored ==
    \A x \in 1..Len(log) :
        (log[x].k = "enter" /\ log[x].tpl = <<>>) =>
            \A name \in Bound(log[x]) :
                /\ name \in DOMAIN log[x].data.v
                /\ log[x].data.v[name] = Innermost(log[x], name)

\* C5: rendering the same template twice over the same data context
\* gives the same output both times.
C5_RenderTwiceSameOutput ==
    Len(outs) = 2 => outs[1] = outs[2]

-----------------------------------------------------------------------------
(* Terminators *)

\* The part a part was added to
Parent(id) ==
    IF \E p \in 1..Len(heap) : id \in Range(heap[p].parts)
    THEN CHOOSE p \in 1..Len(heap) : id \in Range(heap[p].parts)
    ELSE NULL

\* The innermost block around a part of the tree: a part is in a block
\* when it is the loop, or a body of the conditional, or lies in one
RECURSIVE Block(_)
Block(id) ==
    IF id = NULL THEN NULL
    ELSE IF heap[id].kind \in {"Logic", "Loop"} THEN id
    ELSE Block(Parent(id))

\* The class of the innermost open block, the parser adding to _currentPart
OpenKind == IF Block(_currentPart) = NULL THEN "none" ELSE heap[Block(_currentPart)].kind

\* The depth of the nesting of the open blocks
RECURSIVE Depth(_)
Depth(id) == IF Block(id) = NULL THEN 0 ELSE 1 + Depth(Parent(Block(id)))

\* The next directive is a terminator that the innermost open block does
\* not match
Mismatched ==
    /\ pc = "parsing"
    /\ \/ /\ ParseCommand(Parser) \in {elseCommand, elsifCommand, elifCommand, endifCommand}
          /\ OpenKind # "Logic"
       \/ /\ ParseCommand(Parser) = endforCommand
          /\ OpenKind # "Loop"

\* C6: parsing fails with a compile error whenever an else, elsif, elif
\* or endif is read while the innermost open block is not a conditional,
\* and whenever an endfor is read while the innermost open block is not a
\* loop, at any depth of nesting.
C6_MismatchedTerminatorFails ==
    [][Mismatched => (pc' = "failed" /\ err'.msg # "")]_vars

\* An endfor was read while a conditional in a loop was the innermost
\* open block, and the parse failed.
C6_Witness ==
    /\ pc = "failed"
    /\ err.msg = "Missing <? for ?> command"
    /\ Depth(_currentPart) = 2
    /\ OpenKind = "Logic"

-----------------------------------------------------------------------------
(* Guards *)

\* The truth of a value as a guard of if, elsif and elif
Truthy(value) ==
    CASE value.t = "empty" -> FALSE
      [] value.t = "str"   -> value.v # <<>>
      [] value.t = "int"   -> value.v # 0
      [] value.t = "bool"  -> value.v
      [] value.t = "arr"   -> value.v # <<>>
      [] value.t = "obj"   -> DOMAIN value.v # {}

\* The guards of the conditional returning at x that are to hold, the
\* guards of if, elsif and elif by the truth of the value found
GuardsByTruth(x) ==
    {j \in 1..Len(heap[log[x].part].queries) :
        LET q == heap[log[x].part].queries[j] IN
        IF q.kind = "value" THEN Truthy(find(DataAtEntry(x), q.query))
        ELSE Apply(q, DataAtEntry(x))}

\* The body of the first of the guards in T, and no other, was rendered
\* by the conditional returning at x; none when T is empty
RenderedFirstOf(x, T) ==
    ChildrenEntered(x) = IF T = {} THEN <<>> ELSE <<heap[log[x].part].parts[Min(T)]>>

\* C7: a guard of if, elsif or elif is false when the query path resolves
\* to an empty or absent value, true for a string exactly when the string
\* is not empty, whatever it says, and for any other value what the
\* value's conversion to a boolean gives: zero, false, the empty array and
\* the empty object are false.
C7_ValueGuardTruth ==
    \A x \in Leaves("Logic") : RenderedFirstOf(x, GuardsByTruth(x))

\* if a has rendered its body where a is the string "0".
C7_Witness ==
    \E x \in Leaves("Logic") :
        /\ heap[log[x].part].queries[1] = LogicQuery(<<"a">>)
        /\ find(DataAtEntry(x), <<"a">>) = StrV(<<"0">>)
        /\ ChildrenEntered(x) = <<heap[log[x].part].parts[1]>>

\* The guards of the conditional returning at x that are to hold, the
\* guards of ifexist by the presence of a value
GuardsByPresence(x) ==
    {j \in 1..Len(heap[log[x].part].queries) :
        LET q == heap[log[x].part].queries[j] IN
        IF q.kind = "exist" THEN find(DataAtEntry(x), q.query) # Empty
        ELSE Apply(q, DataAtEntry(x))}

\* The number of places at which word occurs in text
Occurrences(word, text) ==
    Cardinality({p \in 1..(Len(text) - Len(word) + 1) :
                    SubSeq(text, p, p + Len(word) - 1) = word})

\* The part of the source the parser has read
Consumed == SubSeq(source, 1, Len(source) - Len(in.s))

\* The guards in the tree that are of a kind
GuardsOfKind(kind) ==
    UNION {{<<p, j>> : j \in {k \in 1..Len(heap[p].queries) : heap[p].queries[k].kind = kind}} :
              p \in 1..Len(heap)}

\* The text without the white space it begins with
RECURSIVE Blanks(_)
Blanks(text) ==
    IF text # <<>> /\ IsSpace(Head(text)) THEN Blanks(Tail(text)) ELSE text

\* The word the text begins with: what comes before white space, the
\* closer or the end of the text
RECURSIVE WordAt(_)
WordAt(text) ==
    IF \/ text = <<>>
       \/ IsSpace(Head(text))
       \/ Len(text) >= 2 /\ SubSeq(text, 1, 2) = <<"?", ">">>
    THEN <<>>
    ELSE <<Head(text)>> \o WordAt(Tail(text))

\* The text after the first closer in it
RECURSIVE PastCloser(_)
PastCloser(text) ==
    IF Len(text) < 2 THEN <<>>
    ELSE IF SubSeq(text, 1, 2) = <<"?", ">">> THEN SubSeq(text, 3, Len(text))
    ELSE PastCloser(Tail(text))

\* The number of directives in the text that have the command word, a
\* directive being what runs from an opener to the next closer
RECURSIVE Directives(_, _)
Directives(word, text) ==
    IF Len(text) < 2 THEN 0
    ELSE IF SubSeq(text, 1, 2) = <<"<", "?">>
    THEN (IF WordAt(Blanks(SubSeq(text, 3, Len(text)))) = word THEN 1 ELSE 0)
             + Directives(word, PastCloser(SubSeq(text, 3, Len(text))))
    ELSE Directives(word, Tail(text))

\* C8: the guard of ifexist is true exactly when the query path resolves
\* to a value that is not empty, whatever the value: it is true of a
\* value that is false as the guard of an if, and false of an absent path.
\* The guards of this kind are those the ifexist directives made.
C8_ExistGuardPresence ==
    /\ \A x \in Leaves("Logic") : RenderedFirstOf(x, GuardsByPresence(x))
    /\ pc \in {"parsing", "parsed"} =>
           Cardinality(GuardsOfKind("exist")) = Directives(ifexistCommand, Consumed)

\* ifexist a has rendered its body where a is false.
C8_Witness ==
    \E x \in Leaves("Logic") :
        /\ heap[log[x].part].queries[1] = LogicExistQuery(<<"a">>)
        /\ find(DataAtEntry(x), <<"a">>) \in {BoolV(FALSE), IntV(0), StrV(<<>>), ArrV(<<>>)}
        /\ log[x].wrote = <<"A">>

-----------------------------------------------------------------------------
(* Text and echo *)

\* The text has no directive opener
NoOpener(text) == Occurrences(<<"<", "?">>, text) = 0

\* C9: a source text without the directive opener, be it empty, be there
\* a < or a ?> in it or a < at its end, parses without error and renders
\* as the source text itself, whatever the data context.
C9_TextRendersVerbatim ==
    NoOpener(source) =>
        /\ pc \notin {"failed", "crashed"}
        /\ \A k \in 1..Len(outs) : outs[k] = source

\* A text that has the closer in it and a < at its end was rendered.
C9_Witness ==
    /\ source = <<"?", ">", "<">>
    /\ outs = <<source, source>>
    /\ pre.t = "obj"
    /\ pre.v # <<>>

\* The input after the opener of the next directive and the white space
\* that follows the opener; empty when the input has no opener
AfterOpener == readWhiteSpace(readText(in).in).s

\* The next directive is an echo in its short form
ShortEcho == pc = "parsing" /\ AfterOpener # <<>> /\ Head(AfterOpener) = "="

\* The input with the = of the next directive written as echo
LongForm ==
    SubSeq(in.s, 1, Len(in.s) - Len(AfterOpener))
        \o echoCommand \o <<" ">> \o Tail(AfterOpener)

\* The writes and the data of the echo returning at x are as they are to be
EchoWrote(x) ==
    LET value == find(DataAtEntry(x), heap[log[x].part].query) IN
    /\ log[x].wrote = IF value = Empty THEN <<>> ELSE toString(value)
    /\ log[x].data = DataAtEntry(x)
    /\ x = log[x].i + 1

\* C10: the short form of echo, with =, is parsed as the form with the
\* word echo is: the parser is left in the same state with the same tree.
\* An echo that is rendered writes the value found at the query path
\* converted to a string, writes nothing and raises no error when the
\* path is absent, and leaves the data context as it is.
C10_EchoShorthand ==
    /\ ShortEcho =>
          ParseIteration(Parser) = ParseIteration([Parser EXCEPT !.in.s = LongForm])
    /\ \A x \in Leaves("Echo") : EchoWrote(x)
    /\ \A e \in 1..Len(log) :
          (log[e].k = "enter" /\ log[e].tpl = <<>> /\ heap[log[e].part].kind = "Echo")
              => e < Len(log)

\* The echo of a.b in its short form has rendered x, and an echo of an
\* absent path after it has rendered nothing.
C10_Witness ==
    /\ Consumed = EchoAB \o EchoX
    /\ pc = "parsed"
    /\ outs = <<<<"x">>>>
    /\ Cardinality(Leaves("Echo")) = 2

-----------------------------------------------------------------------------
(* Loops that have nothing to go over *)

\* The entries of the loops that were rendered over a context that is no
\* object, or in which their query resolved to no array
LoopsOverNothing ==
    {e \in 1..Len(log) :
        /\ log[e].k = "enter"
        /\ log[e].tpl = <<>>
        /\ heap[log[e].part].kind = "Loop"
        /\ \/ log[e].data.t # "obj"
           \/ findArray(log[e].data, heap[log[e].part].query).null}

\* C11: a loop rendered over a data context that is no object, or whose
\* query resolves to no array, renders its body not once, writes nothing,
\* raises no error and leaves the data context as it is: it returns at
\* once, no field set and none removed.
C11_LoopOverNothing ==
    \A e \in LoopsOverNothing :
        /\ e < Len(log)
        /\ log[e + 1].k = "leave"
        /\ log[e + 1].i = e
        /\ log[e + 1].wrote = <<>>
        /\ log[e + 1].data = log[e].data

\* A loop with a body was rendered over an object that has a field named
\* like the loop variable and no array at the query path, and nothing was
\* written.
C11_Witness ==
    \E e \in LoopsOverNothing :
        /\ log[e].data.t = "obj"
        /\ heap[log[e].part].name \in DOMAIN log[e].data.v
        /\ heap[log[e].part].parts # <<>>
        /\ outs = <<<<>>>>

-----------------------------------------------------------------------------
(* Closers *)

\* The text ends with the word
Suffix(text, word) ==
    /\ Len(text) >= Len(word)
    /\ SubSeq(text, Len(text) - Len(word) + 1, Len(text)) = word

\* The text ends with the closer and the line end the parser may drop
EndsWithCloser(text) ==
    \E tail \in {<<>>, <<"\r">>, <<"\n">>, <<"\r", "\n">>} :
        Suffix(text, <<"?", ">">> \o tail)

\* After the next opener and white space the input ends or the closer
\* comes: the next directive has no command
EmptyCommandNext ==
    \/ AfterOpener = <<>>
    \/ Len(AfterOpener) >= 2 /\ SubSeq(AfterOpener, 1, 2) = <<"?", ">">>

\* The text has an opener after which no closer comes
Unclosed(text) ==
    \E p \in 1..(Len(text) - 1) :
        /\ SubSeq(text, p, p + 1) = <<"<", "?">>
        /\ \A q \in (p + 2)..(Len(text) - 1) : SubSeq(text, q, q + 1) # <<"?", ">">>

\* C12 as it stands: the parse of a source with a directive opener that
\* no closer follows fails with a compile error.
C12_UnclosedOpenerFails ==
    Unclosed(source) => pc # "parsed"

\* C12: a directive that has a command word must be closed by ?>: an
\* iteration of the parse that reads such a directive either fails with a
\* compile error or has read up to and including its closer (and the line
\* end dropped with it).  An opener that the end of the input follows,
\* with nothing but white space between, is no error: the parse ends.
C12_DirectiveMustClose ==
    [][pc = "parsing" =>
          \/ pc' = "failed" /\ err'.msg # ""
          \/ EmptyCommandNext /\ pc' = "parsed"
          \/ /\ ~EmptyCommandNext
             /\ pc' \in {"parsing", "parsed"}
             /\ EndsWithCloser(SubSeq(in.s, 1, Len(in.s) - Len(in'.s)))]_vars

\* The parse failed for a missing closer where a word follows the query
\* of an echo that follows an include.
C12_Witness ==
    /\ pc = "failed"
    /\ err.msg = "Missing ?>"
    /\ in.s # <<>>
    /\ Len(heap) = 3
    /\ heap[2].kind = "Include"
    /\ heap[3] = EchoPart(<<"a">>)

-----------------------------------------------------------------------------
(* Commands *)

\* The command words of the template language
Keywords ==
    {<<"e", "c", "h", "o">>, <<"i", "f">>, <<"i", "f", "e", "x", "i", "s", "t">>,
     <<"e", "l", "s", "i", "f">>, <<"e", "l", "i", "f">>, <<"e", "l", "s", "e">>,
     <<"e", "n", "d", "i", "f">>, <<"f", "o", "r">>, <<"e", "n", "d", "f", "o", "r">>,
     <<"i", "n", "c", "l", "u", "d", "e">>}

\* The next directive has a command word that is none of the language
UnknownNext ==
    /\ pc = "parsing"
    /\ ~EmptyCommandNext
    /\ Head(AfterOpener) # "="
    /\ ParseCommand(Parser) \notin Keywords

\* C13: the parse of a directive whose command word is none of echo (or
\* =), if, ifexist, elsif, elif, else, endif, for, endfor and include
\* fails with the error of the unknown command, which names the word, and
\* no part is made of the directive.
C13_UnknownCommandFails ==
    [][UnknownNext =>
          /\ pc' = "failed"
          /\ err' = [msg |-> "Unknown command ", arg |-> ParseCommand(Parser)]
          /\ heap' = ParseText(Parser).heap]_vars

\* The parse failed at the command bogus, after an echo was read.
C13_Witness ==
    /\ pc = "failed"
    /\ err = [msg |-> "Unknown command ", arg |-> <<"b", "o", "g", "u", "s">>]
    /\ \E p \in 1..Len(heap) : heap[p].kind = "Echo"

-----------------------------------------------------------------------------
(* Arguments *)

\* The input at the arguments of the next directive: after its command
\* word and the white space that follows the word
ArgsIn == readWhiteSpace(readTemplateCommand(ParseText(Parser).in).in)

\* No query is at the head of the input: it ends there, or the closer comes
NoQueryAt(i) ==
    \/ i.s = <<>>
    \/ Len(i.s) >= 2 /\ SubSeq(i.s, 1, 2) = <<"?", ">">>

\* A double quote and a character that is none are at the head of the input
FilenameAt(i) == Len(i.s) >= 2 /\ i.s[1] = "\"" /\ i.s[2] # "\""

\* The next directive lacks a token it requires
MissingArgNext ==
    /\ pc = "parsing"
    /\ \/ /\ ParseCommand(Parser) \in
               {echoCommand, ifCommand, ifexistCommand, elsifCommand, elifCommand}
          /\ NoQueryAt(ArgsIn)
       \/ /\ ParseCommand(Parser) = forCommand
          /\ \/ ArgsIn.s = <<>>
             \/ NoQueryAt(readWhiteSpace(readWord(ArgsIn).in))
       \/ /\ ParseCommand(Parser) = includeCommand
          /\ ~FilenameAt(ArgsIn)

\* The errors of a missing argument
MissingMessages ==
    {"Missing query in <? echo ?>", "Missing query in <? ?>",
     "Missing variable in <? for ?> command", "Missing query in <? for ?> command",
     "Missing filename in <? include ?>"}

\* C14: a directive that lacks a token it requires fails with the error
\* of a missing argument, and no part is made of it and no block opened:
\* echo, if, ifexist, elsif and elif without a query, for without a loop
\* variable or without a query, include without a file name of at least
\* one character in double quotes.
C14_MissingArgumentFails ==
    [][MissingArgNext =>
          /\ pc' = "failed"
          /\ err'.msg \in MissingMessages
          /\ heap' = ParseText(Parser).heap
          /\ _partStack' = _partStack]_vars

\* The parse failed at an ifexist without a query, after a part was made,
\* and no conditional was made.
C14_Witness ==
    /\ pc = "failed"
    /\ err = [msg |-> "Missing query in <? ?>", arg |-> ifexistCommand]
    /\ Len(heap) >= 2
    /\ \A p \in 1..Len(heap) : heap[p].kind # "Logic"

-----------------------------------------------------------------------------
(* Line ends after closers *)

\* The line ends that may follow a closer and be dropped with it
LineEnds == {<<>>, <<"\r">>, <<"\n">>, <<"\r", "\n">>}

\* What was read after the closer a text ends with, the closer apart
Dropped(text) == CHOOSE tail \in LineEnds : Suffix(text, <<"?", ">">> \o tail)

\* One carriage return at the head of a text, if there is one, and one
\* line feed after it, if there is one
LineEnd(text) ==
    LET cr == IF text # <<>> /\ Head(text) = "\r" THEN <<"\r">> ELSE <<>>
        after == SubSeq(text, Len(cr) + 1, Len(text))
        lf == IF after # <<>> /\ Head(after) = "\n" THEN <<"\n">> ELSE <<>>
    IN  cr \o lf

\* C15: with the closer of a directive other than echo the parser drops
\* one carriage return that comes directly after ?>, if there is one, and
\* then one line feed, if there is one, and nothing else; with the closer
\* of an echo, in either spelling, it drops nothing, so that the text that
\* follows begins with the character directly after ?>.
C15_LineEndDropped ==
    [][(pc = "parsing" /\ ~EmptyCommandNext /\ pc' \in {"parsing", "parsed"}) =>
          LET span == SubSeq(in.s, 1, Len(in.s) - Len(in'.s)) IN
          /\ EndsWithCloser(span)
          /\ Dropped(span) = IF ParseCommand(Parser) = echoCommand THEN <<>>
                             ELSE LineEnd(Dropped(span) \o in'.s)]_vars

\* A loop whose first part is the text of one line feed was made of a for
\* that a carriage return and two line feeds follow, and the text of one
\* line feed was made after an echo.
C15_Witness ==
    /\ \E p \in 1..Len(heap) :
          /\ heap[p].kind = "Loop"
          /\ heap[p].parts # <<>>
          /\ heap[heap[p].parts[1]] = StringPart(<<"\n">>)
    /\ \E p \in 1..Len(heap) :
          /\ heap[p].kind = "Loop"
          /\ Len(heap[p].parts) >= 3
          /\ heap[heap[p].parts[2]].kind = "Echo"
          /\ heap[heap[p].parts[3]] = StringPart(<<"\r", "\n", "\n">>)

-----------------------------------------------------------------------------
(* Render calls that run at the same time.  A call is                      *)
(*   [arg, data, out, stack, st]: the data context as it was handed over,  *)
(*   the data context object, the text written to the call's stream, the   *)
(*   render calls of parts that have not returned (innermost last) and     *)
(*   "running", "done" or "crashed".  A render call of a part is a frame   *)
(*   [tpl, id, ph, i, j, arr]: the template the part is of (<<>> for the   *)
(*   template rendered, the path of an included file), the part, where     *)
(*   the call is, the guard or the array element it is at, how many of     *)
(*   its parts it has rendered, and the array of a loop.                   *)

Threads == {1, 2}

\* The part tree of a template
Tree(tpl) == IF tpl = <<>> THEN heap ELSE CompiledFiles[tpl].heap

Frame(tpl, id) ==
    [tpl |-> tpl, id |-> id, ph |-> "enter", i |-> 0, j |-> 0, arr |-> <<>>]

\* Template::render is called with a data context: _parts->render
Started(d) ==
    [arg |-> d, data |-> d, out |-> <<>>, stack |-> <<Frame(<<>>, _parts)>>,
     st |-> "running"]

TopFrame(th) == th.stack[Len(th.stack)]

\* The part whose render the call is in
PartOf(th) == Tree(TopFrame(th).tpl)[TopFrame(th).id]

\* The render of a part returns
Return(th) ==
    [th EXCEPT !.stack = Pop(@),
               !.st = IF Len(th.stack) = 1 THEN "done" ELSE "running"]

\* The render of a part goes on from frame f
Goto(th, f) == [th EXCEPT !.stack[Len(th.stack)] = f]

\* p->render(data, out) is called from frame f
Call(th, f, id) == [Goto(th, f) EXCEPT !.stack = Append(@, Frame(f.tpl, id))]

\* The set of a field that reaches the data context of every call
SetFieldShared(ts, t, name, value) ==
    [u \in DOMAIN ts |->
        IF ts[u].data.t = "obj" THEN [ts[u] EXCEPT !.data.v = ObjSet(@, name, value)]
        ELSE ts[u]]

\* dataObject->set(_name, value) by call t
SetField(ts, t, name, value) == [ts EXCEPT ![t].data.v = ObjSet(@, name, value)]

\* dataObject->remove(_name) by call t
RemoveField(ts, t, name) == [ts EXCEPT ![t].data.v = ObjRemove(@, name)]

\* Call t is in the render of a part of a class
Running(t, kind) ==
    /\ threads[t].st = "running"
    /\ PartOf(threads[t]).kind = kind

\* A step of call t leads to th and touches nothing but the call
Step(t, th) ==
    /\ threads' = [threads EXCEPT ![t] = th]
    /\ UNCHANGED <<source, in, heap, _parts, _currentPart, _partStack, pc, err,
                   data, pre, outs, log>>

\* The rest of the state, which no render step touches
Rest == <<source, in, heap, _parts, _currentPart, _partStack, pc, err,
          data, pre, outs, log>>

\* StringPart::render
StepString(t) ==
    /\ Running(t, "String")
    /\ LET f == TopFrame(threads[t]) IN
       Step(t, Return(StringPartRender(Tree(f.tpl), f.tpl, f.id, threads[t])))

\* EchoPart::render
StepEcho(t) ==
    /\ Running(t, "Echo")
    /\ LET f == TopFrame(threads[t]) IN
       Step(t, Return(EchoPartRender(Tree(f.tpl), f.tpl, f.id, threads[t])))

\* MultiPart::render: the next part is rendered, or the loop over the
\* parts is at its end
StepMulti(t) ==
    /\ Running(t, "Multi")
    /\ LET f == TopFrame(threads[t]) IN
       Step(t, IF f.j < Len(PartOf(threads[t]).parts)
               THEN Call(threads[t], [f EXCEPT !.j = @ + 1],
                         PartOf(threads[t]).parts[f.j + 1])
               ELSE Return(threads[t]))

\* LogicPart::render: the next guard is applied; the body of a guard that
\* is true is rendered and the render returns with it
StepLogic(t) ==
    /\ Running(t, "Logic")
    /\ LET f == TopFrame(threads[t])
           p == PartOf(threads[t])
       IN  Step(t, IF f.i >= Len(p.queries) THEN Return(threads[t])
                   ELSE IF Apply(p.queries[f.i + 1], threads[t].data) /\ Len(p.parts) > f.i
                   THEN Goto(threads[t], Frame(f.tpl, p.parts[f.i + 1]))
                   ELSE Goto(threads[t], [f EXCEPT !.i = @ + 1]))

\* LoopPart::render: the class of the data and the array are looked at
StepLoopEnter(t) ==
    /\ Running(t, "Loop")
    /\ TopFrame(threads[t]).ph = "enter"
    /\ LET f == TopFrame(threads[t])
           array == findArray(threads[t].data, PartOf(threads[t]).query)
       IN  Step(t, IF threads[t].data.t = "obj" /\ ~array.null
                   THEN Goto(threads[t], [f EXCEPT !.ph = "for", !.arr = array.v])
                   ELSE Return(threads[t]))

\* LoopPart::render: the loop variable is set to the next element
StepLoopSet(t) ==
    /\ Running(t, "Loop")
    /\ TopFrame(threads[t]).ph = "for"
    /\ TopFrame(threads[t]).i < Len(TopFrame(threads[t]).arr)
    /\ LET f == TopFrame(threads[t]) IN
       threads' = SetField([threads EXCEPT ![t] = Goto(@, [f EXCEPT !.ph = "body", !.j = 0])],
                           t, PartOf(threads[t]).name, f.arr[f.i + 1])
    /\ UNCHANGED Rest

\* LoopPart::render: MultiPart::render of the body, part by part
StepLoopBody(t) ==
    /\ Running(t, "Loop")
    /\ TopFrame(threads[t]).ph = "body"
    /\ LET f == TopFrame(threads[t]) IN
       Step(t, IF f.j < Len(PartOf(threads[t]).parts)
               THEN Call(threads[t], [f EXCEPT !.j = @ + 1],
                         PartOf(threads[t]).parts[f.j + 1])
               ELSE Goto(threads[t], [f EXCEPT !.ph = "for", !.i = @ + 1]))

\* LoopPart::render: the loop variable is removed after the last element
StepLoopRemove(t) ==
    /\ Running(t, "Loop")
    /\ TopFrame(threads[t]).ph = "for"
    /\ TopFrame(threads[t]).i >= Len(TopFrame(threads[t]).arr)
    /\ threads' = RemoveField([threads EXCEPT ![t] = Return(@)],
                              t, PartOf(threads[t]).name)
    /\ UNCHANGED Rest

\* IncludePart::render: the file is parsed and the template rendered
StepInclude(t) ==
    /\ Running(t, "Include")
    /\ LET f == TopFrame(threads[t])
           path == PartOf(threads[t]).content
       IN  Step(t, IF path \in DOMAIN Files /\ CompiledFiles[path].pc # "failed"
                   THEN Goto(threads[t], Frame(path, 1))
                   ELSE [threads[t] EXCEPT !.st = "crashed"])

\* The items of the templates rendered by two calls at once
ConcItems == {IfA, Else, Endif, ForXI, Endfor, EchoX, IncludeF, <<"A">>}

\* The templates of these items that compile
ConcSources ==
    {src \in Templates(ConcItems, MaxConcItems) : ParseAll(src).pc = "parsed"}

\* The data contexts of the calls
ConcContexts ==
    { ObjV(Obj3("a", IntV(1), "b", ArrV(<<Str("T")>>), "i", ArrV(<<IntV(1), IntV(2)>>))),
      ObjV(Obj3("a", BoolV(TRUE), "i", ArrV(<<Str("1")>>), "x", Str("y"))),
      ObjV(Obj3("a", BoolV(FALSE), "b", Str("1"), "x", Str("y"))) }

\* A template was compiled, and render is called on it by two threads,
\* each with a data context object of its own.
InitC ==
    /\ source \in ConcSources
    /\ in = ParseAll(source).in
    /\ heap = ParseAll(source).heap
    /\ _parts = 1
    /\ _currentPart = ParseAll(source).cur
    /\ _partStack = ParseAll(source).stack
    /\ pc = "parsed"
    /\ err = NoError
    /\ data = Empty
    /\ pre = Empty
    /\ outs = <<>>
    /\ log = <<>>
    /\ threads \in [Threads -> {Started(d) : d \in ConcContexts}]

NextC ==
    \E t \in Threads :
        \/ StepString(t)
        \/ StepEcho(t)
        \/ StepMulti(t)
        \/ StepLogic(t)
        \/ StepLoopEnter(t)
        \/ StepLoopSet(t)
        \/ StepLoopBody(t)
        \/ StepLoopRemove(t)
        \/ StepInclude(t)

SpecC == InitC /\ [][NextC]_vars

\* The render call t is over
Done(t) == threads[t].st = "done"

\* C16: two render calls on a compiled template that run at the same
\* time, their steps in any order, each with a data context object of its
\* own, each write what they write when they run alone, and leave their
\* data context as they leave it then.  No step of a render changes the
\* part tree.
C16_ConcurrentRenders ==
    /\ heap = ParseAll(source).heap
    /\ \A t \in DOMAIN threads :
          /\ threads[t].st # "crashed"
          /\ Done(t) =>
                /\ threads[t].out = TemplateRender(heap, _parts, threads[t].arg).out
                /\ threads[t].data = TemplateRender(heap, _parts, threads[t].arg).data

\* Two calls are in the body of the same loop at the same time, each with
\* the loop variable bound to an element of its own array, and one has
\* written.
C16_Witness ==
    /\ DOMAIN threads = Threads
    /\ \A t \in Threads :
          /\ Running(t, "Loop")
          /\ TopFrame(threads[t]).ph = "body"
          /\ TopFrame(threads[t]).id = TopFrame(threads[1]).id
          /\ <<"x">> \in DOMAIN threads[t].data.v
    /\ threads[1].data.v[<<"x">>] # threads[2].data.v[<<"x">>]
    /\ threads[1].out # <<>>

-----------------------------------------------------------------------------
(* Nesting *)

\* The text begins with the word
Prefix(text, word) == Len(text) >= Len(word) /\ SubSeq(text, 1, Len(word)) = word

\* The directives that are complete, by what they do to the open blocks
Openers(kind) == IF kind = "Logic" THEN {IfA, IfexistA} ELSE {ForXI, ForXB}
Branches == {ElsifB, ElifB, Else}
Closers(kind) == IF kind = "Logic" THEN {Endif} ELSE {Endfor}
Plain == {EchoX, EchoA, EchoAB, IncludeF, IncludeG}

\* The complete directive the text begins with, <<>> if there is none
DirectiveAt(text) ==
    LET all == Openers("Logic") \cup Openers("Loop") \cup Branches
                   \cup Closers("Logic") \cup Closers("Loop") \cup Plain
    IN  IF \E d \in all : Prefix(text, d)
        THEN CHOOSE d \in all : Prefix(text, d)
        ELSE <<>>

\* The text is made of complete directives and text between them, and its
\* blocks are nested properly, open being the classes of the blocks open
\* at its start, innermost last, and none being open at its end: a closer
\* closes the innermost open block and is of its class, and the branches
\* of a conditional come where the conditional is the innermost block.
RECURSIVE Nested(_, _)
Nested(text, open) ==
    IF text = <<>> THEN open = <<>>
    ELSE IF ~Prefix(text, <<"<", "?">>) THEN Nested(Tail(text), open)
    ELSE LET d == DirectiveAt(text)
             rest == SubSeq(text, Len(d) + 1, Len(text))
         IN  CASE d = <<>> -> FALSE
               [] d \in Openers("Logic") -> Nested(rest, Append(open, "Logic"))
               [] d \in Openers("Loop") -> Nested(rest, Append(open, "Loop"))
               [] d \in Branches ->
                      open # <<>> /\ Top(open) = "Logic" /\ Nested(rest, open)
               [] d \in Closers("Logic") \cup Closers("Loop") ->
                      /\ open # <<>>
                      /\ d \in Closers(Top(open))
                      /\ Nested(rest, Pop(open))
               [] OTHER -> Nested(rest, open)

\* The next directive is an endif or an endfor
CloserNext == pc = "parsing" /\ ParseCommand(Parser) \in {endifCommand, endforCommand}

\* C17: the parse of a source whose blocks are nested properly, every if
\* and ifexist closed by an endif and every for by an endfor, innermost
\* first, does not fail.  Each endif and endfor pops two levels of the
\* stack and makes current the sequence the block it closes was added to,
\* which was current when the opener was read, so that what is read next
\* is added to that sequence.  When the parse is over the stack is as deep
\* as it was at the start.
C17_NestedBlocksBalance ==
    [][Nested(source, <<>>) =>
          /\ pc' # "failed"
          /\ pc' = "parsed" => _partStack' = <<>>
          /\ CloserNext =>
                /\ Len(_partStack') = Len(_partStack) - 2
                /\ _currentPart' = Parent(Block(_currentPart))
                /\ heap'[_currentPart'].kind \in {"Multi", "Loop"}]_vars

\* A source of a conditional in a loop, both closed, was parsed: the
\* conditional is the one part of the loop, the loop the one part of the
\* template, and the stack is empty.
C17_Witness ==
    /\ Nested(source, <<>>)
    /\ pc = "parsed"
    /\ _partStack = <<>>
    /\ _currentPart = _parts
    /\ Len(heap[_parts].parts) = 1
    /\ heap[heap[_parts].parts[1]].kind = "Loop"
    /\ Len(heap[heap[_parts].parts[1]].parts) = 1
    /\ heap[heap[heap[_parts].parts[1]].parts[1]].kind = "Logic"

-----------------------------------------------------------------------------
(* The else branch *)

\* C18: in every conditional made by a parse that succeeds the guard of
\* else, which is always true, occurs at most once and as the last guard:
\* no guard is added to a conditional after that of its else.
C18_ElseOnlyLast ==
    pc = "parsed" =>
        \A p \in 1..Len(heap) :
            \A j \in 1..Len(heap[p].queries) :
                heap[p].queries[j].kind = "else" => j = Len(heap[p].queries)

-----------------------------------------------------------------------------
(* Blocks left open *)

\* The classes of the blocks that are open at the end of a text made of
\* complete directives and text, innermost last, open being those open at
\* its start; <<"none">> for a text that is not so made or in which a
\* closer or a branch comes where the block of its class is not innermost
RECURSIVE OpenAtEnd(_, _)
OpenAtEnd(text, open) ==
    IF text = <<>> THEN open
    ELSE IF ~Prefix(text, <<"<", "?">>) THEN OpenAtEnd(Tail(text), open)
    ELSE LET d == DirectiveAt(text)
             rest == SubSeq(text, Len(d) + 1, Len(text))
         IN  CASE d = <<>> -> <<"none">>
               [] d \in Openers("Logic") -> OpenAtEnd(rest, Append(open, "Logic"))
               [] d \in Openers("Loop") -> OpenAtEnd(rest, Append(open, "Loop"))
               [] d \in Branches ->
                      IF open # <<>> /\ Top(open) = "Logic"
                      THEN OpenAtEnd(rest, open) ELSE <<"none">>
               [] d \in Closers("Logic") \cup Closers("Loop") ->
                      IF open # <<>> /\ d \in Closers(Top(open))
                      THEN OpenAtEnd(rest, Pop(open)) ELSE <<"none">>
               [] OTHER -> OpenAtEnd(rest, open)

\* The input ends in the source while a block is open
LeftOpen == OpenAtEnd(source, <<>>) \notin {<<>>, <<"none">>}

\* The closers of the open blocks, innermost first
RECURSIVE ClosersFor(_)
ClosersFor(open) ==
    IF open = <<>> THEN <<>>
    ELSE (IF Top(open) = "Logic" THEN Endif ELSE Endfor) \o ClosersFor(Pop(open))

\* What the parse makes of the source with the open blocks closed
Completed == ParseAll(source \o ClosersFor(OpenAtEnd(source, <<>>)))

\* C19: where the input ends while a conditional or a loop is open, the
\* parse returns without a compile error and with the open blocks on the
\* stack; the parts read in an open block are parts of that block, and
\* the template renders them under the guard or the loop of the block:
\* the tree is, and the template renders as, that of the source with the
\* blocks closed at its end.
C19_OpenBlocksAccepted ==
    LeftOpen =>
        /\ pc # "failed"
        /\ pc \in {"parsed", "crashed"} =>
              /\ Len(_partStack) = 2 * Len(OpenAtEnd(source, <<>>))
              /\ \A k \in 1..Len(OpenAtEnd(source, <<>>)) :
                    heap[_partStack[2 * k]].kind = OpenAtEnd(source, <<>>)[k]
              /\ Block(_currentPart) = Top(_partStack)
              /\ Completed.pc = "parsed"
              /\ heap = Completed.heap
              /\ outs # <<>> =>
                    outs[Len(outs)] = TemplateRender(Completed.heap, 1, pre).out

\* The input ended in a loop in a conditional, both open, and the echo in
\* the loop was rendered for the two elements of the array.
C19_Witness ==
    /\ OpenAtEnd(source, <<>>) = <<"Logic", "Loop">>
    /\ pc = "parsed"
    /\ Len(_partStack) = 4
    /\ outs = <<<<"1", "2">>>>

-----------------------------------------------------------------------------
(* The empty command *)

\* The text span that comes next in the input
NextText == readText(in).val

\* C20: where the command read after a text span is empty (the input ends
\* after the text, or after an opener and white space, or the closer
\* follows the opener at once), the parse stops there without error: the
\* parts built are kept, the text span is the last part built, the blocks
\* open stay open, the tree is that of the source cut after the text
\* span, and nothing is read and no part is built after that, whatever
\* becomes of the renders of the template.
C20_EmptyCommandStops ==
    [][/\ (pc = "parsing" /\ EmptyCommandNext) =>
              /\ pc' = "parsed"
              /\ err' = err
              /\ _partStack' = _partStack
              /\ _currentPart' = _currentPart
              /\ heap' = IF NextText = <<>> THEN heap
                         ELSE AddNew(heap, _currentPart, StringPart(NextText))
              /\ heap' = ParseAll(Consumed \o NextText).heap
       /\ pc \in {"parsed", "crashed"} =>
              (pc' \in {"parsed", "crashed"} /\ heap' = heap /\ in' = in)]_vars

\* The parse stopped at a directive without a command, after a text span
\* and before an echo, of which no part was made; the template was
\* rendered then.
C20_Witness ==
    /\ pc = "parsed"
    /\ Prefix(in.s, <<"?", ">", "<", "?">>)
    /\ Len(heap) = 2
    /\ heap[2].kind = "String"
    /\ outs # <<>>

-----------------------------------------------------------------------------
(* The stack after the parse *)

\* C21: after parse has returned or has failed with a compile error the
\* stack of the template holds no open block, whatever the source was.
C21_StackDiscarded ==
    pc \in {"parsed", "failed", "crashed"} => _partStack = <<>>

-----------------------------------------------------------------------------
(* Guards and bodies *)

\* The conditionals of the tree
Conditionals == {p \in 1..Len(heap) : heap[p].kind = "Logic"}

\* C23: in every state of a parse and after it each conditional has as
\* many guards as bodies, at least one of each, and its bodies are
\* sequences: the part to which the text spans and the parts of the
\* directives are added is never the conditional itself.  Hence in every
\* render of a conditional the first guard that is true has a body, which
\* is rendered.
C23_GuardsPairBodies ==
    /\ \A p \in Conditionals :
          /\ Len(heap[p].queries) = Len(heap[p].parts)
          /\ Len(heap[p].queries) >= 1
          /\ \A j \in 1..Len(heap[p].parts) : heap[heap[p].parts[j]].kind = "Multi"
    /\ pc = "parsing" => _currentPart \notin Conditionals
    /\ \A x \in Leaves("Logic") :
          TrueGuards(x) # {} =>
              /\ Min(TrueGuards(x)) <= Len(heap[log[x].part].parts)
              /\ ChildrenEntered(x) # <<>>
              /\ Head(ChildrenEntered(x)) = heap[log[x].part].parts[Min(TrueGuards(x))]

\* A conditional of three guards and three bodies whose third guard, that
\* of else, was the only true one has rendered the text of its third body.
C23_Witness ==
    \E x \in Leaves("Logic") :
        /\ Len(heap[log[x].part].queries) = 3
        /\ Len(heap[log[x].part].parts) = 3
        /\ TrueGuards(x) = {3}
        /\ heap[log[x].part].queries[3].kind = "else"
        /\ log[x].wrote # <<>>

-----------------------------------------------------------------------------
(* Templates without a root part *)

\* What became of the last render of the template
LastRender == TemplateRender(heap, _parts, pre)

\* C22: render is only called on a template that has the root part parse
\* made: no render of the template calls, in an include whose file does
\* not exist, the render of a template without a root part.
C22_RenderHasRoot ==
    outs # <<>> => LastRender.fault # "null"

-----------------------------------------------------------------------------
(* The shape of the stack *)

\* The stack is made of pairs: a sequence (the root, a body or a loop)
\* below, and on top a conditional or a loop that is a part of it
StackPairs ==
    /\ Len(_partStack) % 2 = 0
    /\ \A k \in 1..(Len(_partStack) \div 2) :
          /\ heap[_partStack[2 * k - 1]].kind \in {"Multi", "Loop"}
          /\ heap[_partStack[2 * k]].kind \in {"Logic", "Loop"}
          /\ _partStack[2 * k] \in Range(heap[_partStack[2 * k - 1]].parts)

\* The next directive has a command that opens and closes no block
FlatNext ==
    /\ pc = "parsing"
    /\ ~EmptyCommandNext
    /\ ParseCommand(Parser) \in {echoCommand, includeCommand, elseCommand,
                                 elsifCommand, elifCommand}

\* C24: in every state of the parse of a fresh template the depth of the
\* stack is even and each pair on it is the enclosing sequence below and
\* a conditional or a loop on top; the steps of echo, include, else, elsif
\* and elif leave the depth as it is, be they successful or not.  Hence
\* the stack is empty exactly when its depth is less than two: the test
\* of else and elsif and that of endif and endfor reject the same states.
C24_StackInPairs ==
    /\ [](StackPairs /\ (_partStack = <<>> <=> Len(_partStack) < 2))
    /\ [][FlatNext => Len(_partStack') = Len(_partStack)]_vars

\* A loop and in it a conditional are open, and the else of the
\* conditional was read: the depth is four as it was before the else.
C24_Witness ==
    /\ Len(_partStack) = 4
    /\ heap[_partStack[2]].kind = "Loop"
    /\ heap[_partStack[4]].kind = "Logic"
    /\ Len(heap[_partStack[4]].queries) = 2
    /\ heap[_partStack[4]].queries[2].kind = "else"

=============================================================================
